---- MODULE Spec2Model ----
(***************************************************************************)
(* The ESP8266 software I2S driver, cores/esp8266/core_esp8266_i2s.c:      *)
(* a ring of SLC_BUF_CNT DMA buffers drained by the SLC engine, the queue  *)
(* of reclaimed buffers filled by the completion interrupt i2s_slc_isr,    *)
(* and the producer-side writers i2s_write_sample / i2s_write_sample_nb.   *)
(*                                                                         *)
(* Buffers and descriptors are named by their index x in                   *)
(* i2s_slc_buf_pntr[x] / i2s_slc_items[x].  The hardware (not part of the  *)
(* source) is modelled by what the source relies on: the engine reads the  *)
(* words of the current descriptor's buffer in order, and after the last   *)
(* word (eof = 1) latches the descriptor in SLCRXEDA, raises RX_EOF and    *)
(* follows next_link_ptr.  One core: a pending, unmasked interrupt is      *)
(* taken before the producer executes anything else.  The engine does not  *)
(* finish a second buffer while an RX_EOF is still pending (the masked     *)
(* window of the producer is a few instructions, a buffer lasts            *)
(* SLC_BUF_LEN sample periods).                                            *)
(***************************************************************************)
EXTENDS Integers, Sequences, FiniteSets, TLC

\* #define SLC_BUF_CNT (8)
SLC_BUF_CNT == 8
\* #define SLC_BUF_LEN (64): the length of one buffer in words.  The code is
\* parametric in it; the model runs it at a small value.
SLC_BUF_LEN == 3
\* Caps on the samples written and on the buffers the engine completes:
\* a session of many writes, an underrun of two laps of the ring with few
\* writes, and a short session for the progress of the blocking writer.
MaxWrites == 22
MaxCompletions == 10
UnderrunWrites == 4
UnderrunCompletions == 17
FairWrites == 7
FairCompletions == 4
\* Caps on the sessions (i2s_begin .. i2s_end) and on the calls of
\* i2s_set_rate in one behaviour.
MaxSessions == 2
MaxRateCalls == 4
\* Caps of the session that writes stereo samples.
StereoWrites == 2
StereoCompletions == 2
\* Caps of the session in which the pop of the producer is taken step by
\* step.
StepWrites == 8
StepCompletions == 6
\* Caps of the session with a callback: an underrun with evictions.
CallbackWrites == 3
CallbackCompletions == 9
\* Caps of the behaviours with several sessions, over all their sessions.
LifeWrites == 4
LifeCompletions == 3

NULL == -1
UINT8 == 256

Bufs == 0 .. (SLC_BUF_CNT - 1)
Words == 0 .. (SLC_BUF_LEN - 1)
Slots == 0 .. (SLC_BUF_CNT - 2)

VARIABLES
  running,              \* between i2s_begin and i2s_end
  i2s_slc_queue,        \* uint32_t i2s_slc_queue[SLC_BUF_CNT-1]
  i2s_slc_queue_len,    \* uint8_t
  i2s_curr_slc_buf,     \* buffer being written, or NULL
  i2s_curr_slc_buf_pos, \* position in the current buffer
  mem,                  \* the words of the SLC_BUF_CNT buffers
  rxDesc,               \* descriptor the engine is draining
  rxPos,                \* next word of it the engine reads
  SLCRXEDA,             \* descriptor of the last RX_EOF
  SLCIS,                \* RX_EOF raised and not yet cleared
  intrEnabled,          \* ETS_SLC_INTR_ENABLE / DISABLE
  pc,                   \* where the producer is inside a write call
  call,                 \* the writer called last
  ret,                  \* what the last finished call returned
  sample,               \* the argument of the call of the writer in progress
  lrArgs,               \* <<left, right>>: the arguments of i2s_write_lr
  \* the locals of i2s_slc_queue_next_item called by a writer
  popItem,              \* uint32_t item
  popI,                 \* uint8_t i
  popSnap,              \* history: <<queue, length>> when that call began
  \* the callback
  i2s_callback,         \* static void (*i2s_callback) (void), or NULL
  ncb,                  \* history: invocations of the callback
  nskip,                \* history: handler runs that invoked nothing
  cbSeen,               \* history: what the callback saw when invoked last
  \* history, read by the properties only
  nwritten,             \* samples stored so far; the k-th sample is the word k
  stale,                \* <<b, s>>: sample s was in buffer b when the engine completed b
  ncompl,               \* buffers the engine has completed
  drained,              \* the non-zero words the engine has read, in order
  evicted,              \* the handler has dropped a queue entry
  lastPop,              \* completion number of the buffer the producer popped last
  oob,                  \* an access outside i2s_slc_queue has happened
  capWrites,            \* the cap on nwritten in this behaviour
  capCompletions,       \* the cap on ncompl in this behaviour
  \* the clock
  _i2s_sample_rate,     \* static uint32_t _i2s_sample_rate
  I2SC,                 \* the divider fields <<I2SBD, I2SCD>> of the register I2SC
  \* history of the clock and of the sessions
  nprog,                \* writes of the divider fields so far
  rateCalls,            \* calls of i2s_set_rate so far
  lastReq,              \* the rate requested by the last call, or NULL
  sessions,             \* calls of i2s_begin so far
  dangling,             \* i2s_curr_slc_buf points into memory that was freed
  uaf,                  \* a sample has been stored through such a pointer
  complAtBegin,         \* ncompl at the last i2s_begin
  writesAtBegin         \* nwritten at the last i2s_begin

prog == <<running, i2s_slc_queue, i2s_slc_queue_len, i2s_curr_slc_buf,
          i2s_curr_slc_buf_pos, mem>>
hw == <<rxDesc, rxPos, SLCRXEDA, SLCIS, intrEnabled>>
prod == <<pc, call, ret, sample>>
hist == <<nwritten, stale, ncompl, drained, evicted, lastPop, oob>>
caps == <<capWrites, capCompletions>>
rateVars == <<_i2s_sample_rate, I2SC, nprog, rateCalls, lastReq>>
lifeKept == <<sessions, dangling, complAtBegin, writesAtBegin>>
lifeVars == <<lifeKept, uaf>>
lrVars == <<lrArgs>>
popVars == <<popItem, popI, popSnap>>
cbVars == <<i2s_callback, ncb, nskip, cbSeen>>
ext == <<rateVars, lifeVars, lrVars, popVars, cbVars>>
\* the same but uaf, which a store may set
extStore == <<rateVars, lifeKept, lrVars, popVars, cbVars>>
vars == <<prog, hw, prod, hist, caps, ext>>

----------------------------------------------------------------------------
\* Helpers

ZeroBuf == [w \in Words |-> 0]

\* as ets_memset, with the length given in bytes of one word only
ets_memset_short(m, b) == [m EXCEPT ![b][0] = 0]

\* ets_memset((void *)finished_item->buf_ptr, 0x00, SLC_BUF_LEN * 4)
ets_memset(m, b) == [m EXCEPT ![b] = ZeroBuf]

\* i2s_slc_items[x].next_link_ptr
next_link_ptr(x) == IF x < SLC_BUF_CNT - 1 THEN x + 1 ELSE 0

\* as QueueAtCapacity, comparing with the number of buffers
QueueAtCapacityOffByOne(len) == len >= SLC_BUF_CNT

\* the test i2s_slc_queue_len >= SLC_BUF_CNT-1 of the handler and of i2s_is_empty
QueueAtCapacity(len) == len >= SLC_BUF_CNT - 1

\* the test (i2s_curr_slc_buf_pos==SLC_BUF_LEN || i2s_curr_slc_buf==NULL)
CursorExhausted(buf, pos) == pos = SLC_BUF_LEN \/ buf = NULL

\* i2s_slc_queue_next_item: the item, the queue and the length after the pop.
\* The loop copies slot i+1 to slot i for i < len; reads past the array are
\* outside the object and leave the slot as it is here (oob records them).
PopItemNewest(q) == q[(i2s_slc_queue_len - 1) % UINT8]
PopItem(q) == q[0]
PopLen(len) == (len - 1) % UINT8
PopQueueNoShift(q, len) == q
PopQueue(q, len) ==
  [i \in Slots |-> IF i < PopLen(len) /\ i + 1 \in Slots THEN q[i + 1] ELSE q[i]]
PopOob(len) == PopLen(len) > SLC_BUF_CNT - 2

\* i2s_slc_queue[i2s_slc_queue_len++] = item
PushQueue(q, len, item) == IF len \in Slots THEN [q EXCEPT ![len] = item] ELSE q
PushLen(len) == (len + 1) % UINT8
PushOob(len) == len \notin Slots

\* as QueueEmpty, off by one
QueueEmptyOffByOne(len) == len <= 1

\* the test i2s_slc_queue_len == 0 of the writers
QueueEmpty(len) == len = 0

\* as QueueHasItem, with >= for >
QueueHasItemAlways(len) == len >= 0

\* the test i2s_slc_queue_len > 0 that ends the wait of i2s_write_sample
QueueHasItem(len) == len > 0

\* struct slc_queue_item *finished_item = (struct slc_queue_item*)SLCRXEDA
FinishedItem == SLCRXEDA

\* the interrupt is taken as soon as it is raised and not masked
IntrTaken == SLCIS /\ intrEnabled
CpuFree == ~IntrTaken

\* what code called from the handler can see: the queue, its length, the
\* words of the completed buffer and whether the SLC interrupt is enabled
View(q, len, words, enabled) ==
  [queue |-> q, len |-> len, words |-> words, enabled |-> enabled]

\* as CallbackPoint, the callback invoked before the buffer is zeroed and queued
CallbackPointEarly(entry, pushed) == entry

\* if (i2s_callback) i2s_callback(): invoked after the push, before
\* ETS_SLC_INTR_ENABLE(); entry and pushed are the views when the handler
\* has masked the interrupt and after i2s_slc_queue[i2s_slc_queue_len++] = ...
CallbackPoint(entry, pushed) == pushed

\* as i2s_is_full, with || for &&
i2s_is_full_either ==
  CursorExhausted(i2s_curr_slc_buf, i2s_curr_slc_buf_pos) \/ (i2s_slc_queue_len = 0)

\* bool i2s_is_full(): (pos==SLC_BUF_LEN || buf==NULL) && (i2s_slc_queue_len == 0)
i2s_is_full ==
  CursorExhausted(i2s_curr_slc_buf, i2s_curr_slc_buf_pos) /\ (i2s_slc_queue_len = 0)

\* a value returned as int16_t
Int16(x) == ((x + 32768) % 65536) - 32768

\* int16_t i2s_available(): (SLC_BUF_CNT - i2s_slc_queue_len) * SLC_BUF_LEN
i2s_available == Int16((SLC_BUF_CNT - i2s_slc_queue_len) * SLC_BUF_LEN)

\* The number of consecutive calls of i2s_write_sample_nb that return true
\* from cursor (buf, pos) and queue (q, len) when no handler runs in between:
\* each call stores at the cursor, after a pop if the cursor is exhausted,
\* and the first call that finds the cursor exhausted and the queue empty
\* returns false.
RECURSIVE NbAccepted(_, _, _, _)
NbAccepted(buf, pos, q, len) ==
  IF CursorExhausted(buf, pos)
    THEN IF QueueEmpty(len)
           THEN 0
           ELSE 1 + NbAccepted(PopItem(q), 1, PopQueue(q, len), PopLen(len))
    ELSE 1 + NbAccepted(buf, pos + 1, q, len)

----------------------------------------------------------------------------
\* 32-bit integers are kept as signed two's-complement values.

RECURSIVE Pow2(_)
Pow2(n) == IF n = 0 THEN 1 ELSE 2 * Pow2(n - 1)

\* a & b on n-bit two's-complement values (the top bit weighs -2^(n-1))
RECURSIVE BitAnd(_, _, _)
BitAnd(a, b, n) ==
  IF n = 1 THEN 0 - ((a % 2) * (b % 2))
           ELSE (a % 2) * (b % 2) + 2 * BitAnd(a \div 2, b \div 2, n - 1)

\* a | b on n-bit two's-complement values
RECURSIVE BitOr(_, _, _)
BitOr(a, b, n) ==
  LET bit == IF a % 2 = 1 \/ b % 2 = 1 THEN 1 ELSE 0
  IN IF n = 1 THEN 0 - bit
              ELSE bit + 2 * BitOr(a \div 2, b \div 2, n - 1)

----------------------------------------------------------------------------
\* The clock: i2s_set_rate, i2s_set_dividers

\* i2s_reg.h: the base clock of the I2S block and the 6-bit masks of the
\* two divider fields of I2SC
I2SBASEFREQ == 160000000
I2SBDM == 63
I2SCDM == 63

\* uint32_t scaled_base_freq = I2SBASEFREQ/32
scaled_base_freq == I2SBASEFREQ \div 32

\* A float is <<m, e>>, the value m * 2^e with m <= 2^24 and e <= 0; a
\* result of a division has 2^23 <= m, so m is the 24-bit significand and
\* the rounding below is the rounding to nearest, ties to even, of IEEE
\* single precision.  Every value of the search lies between 2^10 and 2^23,
\* so -13 <= e.
Float(x) == <<x, 0>>

\* the powers of two, tabulated
TwoTo == [n \in 0 .. 30 |-> Pow2(n)]

\* the dividend doubled until the quotient fills the significand
RECURSIVE FScale(_, _, _)
FScale(m, d, s) == IF m \div d >= TwoTo[23] THEN <<m, s>> ELSE FScale(2 * m, d, s + 1)

\* the float f / d for an integer divider d
FDiv(f, d) ==
  LET n == FScale(f[1], d, 0)
      qm == n[1] \div d
      rem == n[1] % d
      up == 2 * rem > d \/ (2 * rem = d /\ qm % 2 = 1)
  IN <<IF up THEN qm + 1 ELSE qm, f[2] - n[2]>>

\* the number of low bits a significand of 24 bits has no room for
RECURSIVE ExcessBits(_)
ExcessBits(a) == IF a < TwoTo[24] THEN 0 ELSE 1 + ExcessBits(a \div 2)

\* fabs(f - rate) as a float: the exact difference, rounded to 24 bits
FSubAbs(f, rate) ==
  LET n == f[1] - rate * TwoTo[0 - f[2]]
      a == IF n < 0 THEN 0 - n ELSE n
      u == TwoTo[ExcessBits(a)]
      ma == a \div u
      rem == a % u
      up == 2 * rem > u \/ (2 * rem = u /\ ma % 2 = 1)
  IN <<(IF up THEN ma + 1 ELSE ma) * u, f[2]>>

\* a < b for non-negative floats: the integer parts, then the fractions in
\* units of 2^-13
FLess(a, b) ==
  LET ua == TwoTo[0 - a[2]]
      ub == TwoTo[0 - b[2]]
  IN \/ a[1] \div ua < b[1] \div ub
     \/ /\ a[1] \div ua = b[1] \div ub
        /\ (a[1] % ua) * TwoTo[13 + a[2]] < (b[1] % ub) * TwoTo[13 + b[2]]

\* (float)scaled_base_freq/i for each i of the outer loop
BaseOver == [i \in 1 .. 63 |-> FDiv(Float(scaled_base_freq), i)]

\* float new_delta = fabs(((float)scaled_base_freq/i/j) - rate)
new_delta(rate, i, j) == FSubAbs(FDiv(BaseOver[i], j), rate)

\* The two loops of i2s_set_rate; best is <<delta_best, sbd_div_best,
\* scd_div_best>>.
RECURSIVE ScanJ(_, _, _, _)
ScanJ(rate, i, j, best) ==
  IF j < 64
    THEN LET d == new_delta(rate, i, j)
         IN IF FLess(d, best[1])
              THEN ScanJ(rate, i, j + 1, <<d, i, j>>)
              ELSE ScanJ(rate, i, j + 1, best)
    ELSE best

RECURSIVE ScanI(_, _, _)
ScanI(rate, i, best) ==
  IF i < 64
    THEN LET row == ScanJ(rate, i, i, best)
         IN IF row[2] <= i THEN ScanI(rate, i + 1, row) ELSE best
    ELSE best

\* float delta_best = scaled_base_freq; sbd_div_best=1; scd_div_best=1; the loops
BestDividers(rate) ==
  LET best == ScanI(rate, 1, <<Float(scaled_base_freq), 1, 1>>)
  IN <<best[2], best[3]>>

\* i2s_set_dividers: div1 &= I2SBDM; div2 &= I2SCDM; the fields of I2SC
i2s_set_dividers(div1, div2) == <<BitAnd(div1, I2SBDM, 32), BitAnd(div2, I2SCDM, 32)>>

\* The rates the program asks for, and the dividers the search finds for
\* each of them.
Rates == {0, 8000, 8091, 22050, 44100, 48000}
SearchResult == [r \in Rates |-> BestDividers(r)]

\* as BeginRate, the rate of the previous session kept
BeginRateKept == _i2s_sample_rate

\* i2s_begin: _i2s_sample_rate = 0
BeginRate == 0

\* if(rate == _i2s_sample_rate) return; from the current rate cur
RateIsCurrent(rate, cur) == rate = cur

\* i2s_set_rate(rate) when the current rate is cur: the new current rate,
\* the divider fields and the count of their writes
SetRate(rate, cur) ==
  IF RateIsCurrent(rate, cur)
    THEN /\ _i2s_sample_rate' = cur
         /\ UNCHANGED <<I2SC, nprog>>
    ELSE /\ _i2s_sample_rate' = rate
         /\ I2SC' = i2s_set_dividers(SearchResult[rate][1], SearchResult[rate][2])
         /\ nprog' = nprog + 1

----------------------------------------------------------------------------
\* i2s_write_lr

\* x << 16 in an int: the low 16 bits of x become the high half, bit 15 the
\* sign (a shift into the sign bit is kept as the two's-complement result)
ShiftLeft16(x) ==
  LET lo == x % 65536
  IN (IF lo >= 32768 THEN lo - 65536 ELSE lo) * 65536

\* as i2s_write_lr_word, left not masked
i2s_write_lr_unmasked(left, right) ==
  BitOr(ShiftLeft16(BitAnd(right, 65535, 32)), left, 32)

\* int sample = right & 0xFFFF; sample = sample << 16; sample |= left & 0xFFFF
i2s_write_lr_word(left, right) ==
  BitOr(ShiftLeft16(BitAnd(right, 65535, 32)), BitAnd(left, 65535, 32), 32)

----------------------------------------------------------------------------
StartLr(writes, completions, lr) ==
  /\ lrArgs = lr
  /\ sample = 0
  /\ popItem = NULL
  /\ popI = 0
  /\ popSnap = <<[i \in Slots |-> NULL], 0>>
  /\ i2s_callback = NULL
  /\ ncb = 0
  /\ nskip = 0
  /\ cbSeen = View([i \in Slots |-> NULL], 0, ZeroBuf, FALSE)
  /\ capWrites = writes
  /\ capCompletions = completions
  /\ running = FALSE
  /\ i2s_slc_queue = [i \in Slots |-> NULL]
  /\ i2s_slc_queue_len = 0
  /\ i2s_curr_slc_buf = NULL
  /\ i2s_curr_slc_buf_pos = 0
  /\ mem = [b \in Bufs |-> ZeroBuf]
  /\ rxDesc = 0
  /\ rxPos = 0
  /\ SLCRXEDA = NULL
  /\ SLCIS = FALSE
  /\ intrEnabled = FALSE
  /\ pc = "idle"
  /\ call = "none"
  /\ ret = TRUE
  /\ nwritten = 0
  /\ stale = {}
  /\ ncompl = 0
  /\ drained = << >>
  /\ evicted = FALSE
  /\ lastPop = -1
  /\ oob = FALSE
  /\ _i2s_sample_rate = 0
  /\ I2SC = <<0, 0>>
  /\ nprog = 0
  /\ rateCalls = 0
  /\ lastReq = NULL
  /\ sessions = 0
  /\ dangling = FALSE
  /\ uaf = FALSE
  /\ complAtBegin = 0
  /\ writesAtBegin = 0

Start(writes, completions) == StartLr(writes, completions, <<0, 0>>)

Init == Start(MaxWrites, MaxCompletions)
InitUnderrun == Start(UnderrunWrites, UnderrunCompletions)
InitFair == Start(FairWrites, FairCompletions)

\* the 16-bit values passed to i2s_write_lr
Samples16 == {-32768, -1, 0, 4660, 22136, 32767}
InitSteps == Start(StepWrites, StepCompletions)
InitCallback == Start(CallbackWrites, CallbackCompletions)
InitLife == Start(LifeWrites, LifeCompletions)
InitStereo ==
  \E lr \in Samples16 \X Samples16 : StartLr(StereoWrites, StereoCompletions, lr)

\* i2s_begin -> i2s_slc_begin: queue emptied, buffers allocated and zeroed,
\* descriptors linked in a ring, RX link set to descriptor 0, interrupt
\* enabled, transmission started, the rate set to 44100.  Neither function
\* assigns i2s_curr_slc_buf or i2s_curr_slc_buf_pos: a cursor left by the
\* previous session points into freed memory, which malloc may or may not
\* have handed out again as one of the new buffers.
i2s_begin ==
  /\ ~running
  /\ pc = "idle"
  /\ sessions < MaxSessions
  /\ running' = TRUE
  /\ i2s_slc_queue_len' = 0
  /\ mem' = [b \in Bufs |-> ZeroBuf]
  /\ rxDesc' = 0
  /\ rxPos' = 0
  /\ SLCIS' = FALSE
  /\ intrEnabled' = TRUE
  /\ SetRate(44100, BeginRate)
  /\ rateCalls' = rateCalls + 1
  /\ lastReq' = 44100
  /\ sessions' = sessions + 1
  /\ complAtBegin' = ncompl
  /\ writesAtBegin' = nwritten
  /\ IF dangling
       THEN \/ UNCHANGED <<i2s_curr_slc_buf, dangling>>
            \/ /\ i2s_curr_slc_buf' \in Bufs
               /\ dangling' = FALSE
       ELSE UNCHANGED <<i2s_curr_slc_buf, dangling>>
  /\ UNCHANGED <<i2s_slc_queue, i2s_curr_slc_buf_pos,
                 SLCRXEDA, prod, hist, caps, lrVars, popVars, cbVars, uaf>>

\* i2s_end -> i2s_slc_end: transmission stopped, interrupt disabled and
\* cleared, the buffers freed; the cursor is left as it is.  Called between
\* two calls of the writers.
i2s_end ==
  /\ running
  /\ pc = "idle"
  /\ CpuFree
  /\ running' = FALSE
  /\ SLCIS' = FALSE
  /\ intrEnabled' = FALSE
  /\ dangling' = (i2s_curr_slc_buf # NULL)
  /\ UNCHANGED <<i2s_slc_queue, i2s_slc_queue_len, i2s_curr_slc_buf,
                 i2s_curr_slc_buf_pos, mem, rxDesc, rxPos, SLCRXEDA,
                 prod, hist, caps, rateVars, lrVars, popVars, cbVars,
                 sessions, uaf, complAtBegin, writesAtBegin>>

\* i2s_set_rate(rate), called between two calls of the writers
i2s_set_rate ==
  /\ pc = "idle"
  /\ CpuFree
  /\ rateCalls < MaxRateCalls
  /\ \E rate \in Rates :
       /\ SetRate(rate, _i2s_sample_rate)
       /\ lastReq' = rate
  /\ rateCalls' = rateCalls + 1
  /\ UNCHANGED <<prog, hw, prod, hist, caps, lifeVars, lrVars, popVars, cbVars>>

----------------------------------------------------------------------------
\* The SLC engine

\* the engine reads one word of the current buffer, not the last one
DmaRead ==
  /\ running
  /\ ncompl < capCompletions
  /\ rxPos < SLC_BUF_LEN - 1
  /\ drained' = IF mem[rxDesc][rxPos] # 0
                  THEN Append(drained, mem[rxDesc][rxPos]) ELSE drained
  /\ rxPos' = rxPos + 1
  /\ UNCHANGED <<prog, rxDesc, SLCRXEDA, SLCIS, intrEnabled, prod,
                 nwritten, stale, ncompl, evicted, lastPop, oob, caps, ext>>

\* the engine reads the last word: eof is set in every descriptor, so it
\* latches the descriptor, raises RX_EOF and moves to the next descriptor
DmaEof ==
  /\ running
  /\ ncompl < capCompletions
  /\ rxPos = SLC_BUF_LEN - 1
  /\ ~SLCIS
  /\ drained' = IF mem[rxDesc][rxPos] # 0
                  THEN Append(drained, mem[rxDesc][rxPos]) ELSE drained
  /\ SLCRXEDA' = rxDesc
  /\ SLCIS' = TRUE
  /\ rxDesc' = next_link_ptr(rxDesc)
  /\ rxPos' = 0
  /\ ncompl' = ncompl + 1
  /\ stale' = stale \cup {<<rxDesc, mem[rxDesc][w]>> : w \in {x \in Words : mem[rxDesc][x] # 0}}
  /\ UNCHANGED <<prog, intrEnabled, prod, nwritten, evicted, lastPop, oob, caps, ext>>

----------------------------------------------------------------------------
\* i2s_slc_isr, run to completion: nothing preempts it

i2s_slc_isr ==
  /\ running
  /\ IntrTaken
  /\ LET finished == FinishedItem
         full == QueueAtCapacity(i2s_slc_queue_len)
         q1 == IF full THEN PopQueue(i2s_slc_queue, i2s_slc_queue_len)
                       ELSE i2s_slc_queue
         l1 == IF full THEN PopLen(i2s_slc_queue_len) ELSE i2s_slc_queue_len
         entry == View(i2s_slc_queue, i2s_slc_queue_len, mem[finished], FALSE)
         pushed == View(PushQueue(q1, l1, finished), PushLen(l1),
                        ets_memset(mem, finished)[finished], FALSE)
     IN /\ SLCIS' = FALSE
        /\ mem' = ets_memset(mem, finished)
        /\ i2s_slc_queue' = PushQueue(q1, l1, finished)
        /\ i2s_slc_queue_len' = PushLen(l1)
        /\ evicted' = (evicted \/ full)
        /\ oob' = (oob \/ (full /\ PopOob(i2s_slc_queue_len)) \/ PushOob(l1))
        /\ IF i2s_callback # NULL
             THEN /\ cbSeen' = CallbackPoint(entry, pushed)
                  /\ ncb' = ncb + 1
                  /\ UNCHANGED nskip
             ELSE /\ nskip' = nskip + 1
                  /\ UNCHANGED <<cbSeen, ncb>>
        /\ intrEnabled' = TRUE
  /\ UNCHANGED <<running, i2s_curr_slc_buf, i2s_curr_slc_buf_pos,
                 rxDesc, rxPos, SLCRXEDA, prod,
                 nwritten, stale, ncompl, drained, lastPop, caps,
                 rateVars, lifeVars, lrVars, popVars, i2s_callback>>

\* i2s_set_callback(callback), called between two calls of the writers with
\* a function or with NULL
i2s_set_callback ==
  /\ pc = "idle"
  /\ CpuFree
  /\ \E callback \in {NULL, 1} :
       /\ callback # i2s_callback
       /\ i2s_callback' = callback
  /\ UNCHANGED <<prog, hw, prod, hist, caps, rateVars, lifeVars, lrVars, popVars,
                 ncb, nskip, cbSeen>>

----------------------------------------------------------------------------
\* The producer

\* i2s_curr_slc_buf[i2s_curr_slc_buf_pos++] = sample; return true
\* (a store through a pointer into freed memory lands outside the buffers)
Store(buf, pos, s) ==
  /\ mem' = IF dangling THEN mem ELSE [mem EXCEPT ![buf][pos] = s]
  /\ uaf' = (uaf \/ dangling)
  /\ i2s_curr_slc_buf_pos' = pos + 1
  /\ nwritten' = nwritten + 1
  /\ ret' = TRUE
  /\ pc' = "idle"

\* entry of i2s_write_sample(sample), up to the first yield or the masking
\* (the k-th sample written by the plain writers is the word k)
i2s_write_sample ==
  /\ running /\ CpuFree
  /\ pc = "idle"
  /\ nwritten < capWrites
  /\ IF CursorExhausted(i2s_curr_slc_buf, i2s_curr_slc_buf_pos)
       THEN /\ pc' = IF QueueEmpty(i2s_slc_queue_len) THEN "spin" ELSE "mask"
            /\ UNCHANGED <<mem, i2s_curr_slc_buf_pos, nwritten, ret, uaf>>
       ELSE Store(i2s_curr_slc_buf, i2s_curr_slc_buf_pos, nwritten + 1)
  /\ call' = "blocking"
  /\ sample' = nwritten + 1
  /\ UNCHANGED <<running, i2s_slc_queue, i2s_slc_queue_len, i2s_curr_slc_buf,
                 hw, stale, ncompl, drained, evicted, lastPop, oob, caps, extStore>>

\* while(1){ if(i2s_slc_queue_len > 0) break; else optimistic_yield(10000); }
SpinLoop ==
  /\ running /\ CpuFree
  /\ pc = "spin"
  /\ pc' = IF QueueHasItem(i2s_slc_queue_len) THEN "mask" ELSE "spin"
  /\ UNCHANGED <<prog, hw, call, ret, sample, hist, caps, ext>>

\* entry of i2s_write_sample_nb(sample)
i2s_write_sample_nb ==
  /\ running /\ CpuFree
  /\ pc = "idle"
  /\ nwritten < capWrites
  /\ IF CursorExhausted(i2s_curr_slc_buf, i2s_curr_slc_buf_pos)
       THEN IF QueueEmpty(i2s_slc_queue_len)
              THEN /\ ret' = FALSE
                   /\ UNCHANGED <<mem, i2s_curr_slc_buf_pos, nwritten, pc, uaf>>
              ELSE /\ pc' = "mask"
                   /\ UNCHANGED <<mem, i2s_curr_slc_buf_pos, nwritten, ret, uaf>>
       ELSE Store(i2s_curr_slc_buf, i2s_curr_slc_buf_pos, nwritten + 1)
  /\ call' = "nb"
  /\ sample' = nwritten + 1
  /\ UNCHANGED <<running, i2s_slc_queue, i2s_slc_queue_len, i2s_curr_slc_buf,
                 hw, stale, ncompl, drained, evicted, lastPop, oob, caps, extStore>>

\* i2s_write_lr(left, right): the word is packed and passed to
\* i2s_write_sample; this is that call up to its first yield or the masking
i2s_write_lr ==
  /\ running /\ CpuFree
  /\ pc = "idle"
  /\ nwritten < capWrites
  /\ LET word == i2s_write_lr_word(lrArgs[1], lrArgs[2])
     IN /\ IF CursorExhausted(i2s_curr_slc_buf, i2s_curr_slc_buf_pos)
             THEN /\ pc' = IF QueueEmpty(i2s_slc_queue_len) THEN "spin" ELSE "mask"
                  /\ UNCHANGED <<mem, i2s_curr_slc_buf_pos, nwritten, ret, uaf>>
             ELSE Store(i2s_curr_slc_buf, i2s_curr_slc_buf_pos, word)
        /\ sample' = word
  /\ call' = "lr"
  /\ UNCHANGED <<running, i2s_slc_queue, i2s_slc_queue_len, i2s_curr_slc_buf,
                 hw, stale, ncompl, drained, evicted, lastPop, oob, caps, extStore>>

\* as WriterMask, the interrupt left as it is
WriterMaskMissing == intrEnabled

\* ETS_SLC_INTR_DISABLE() of the writers: the SLC interrupt is masked
WriterMask == FALSE

\* ETS_SLC_INTR_DISABLE()
MaskIntr ==
  /\ running /\ CpuFree
  /\ pc = "mask"
  /\ intrEnabled' = WriterMask
  /\ pc' = "pop"
  /\ UNCHANGED <<prog, rxDesc, rxPos, SLCRXEDA, SLCIS, call, ret, sample, hist, caps, ext>>

\* completion number of the last completion of buffer b
LastCompletion(b) == (ncompl - 1) - ((SLCRXEDA - b) % SLC_BUF_CNT)

\* i2s_curr_slc_buf = (uint32_t *)i2s_slc_queue_next_item()
PopNext ==
  /\ running /\ CpuFree
  /\ pc = "pop"
  /\ i2s_curr_slc_buf' = PopItem(i2s_slc_queue)
  /\ i2s_slc_queue' = PopQueue(i2s_slc_queue, i2s_slc_queue_len)
  /\ i2s_slc_queue_len' = PopLen(i2s_slc_queue_len)
  /\ oob' = (oob \/ PopOob(i2s_slc_queue_len))
  /\ lastPop' = LastCompletion(i2s_curr_slc_buf')
  /\ dangling' = FALSE
  /\ pc' = "unmask"
  /\ UNCHANGED <<running, i2s_curr_slc_buf_pos, mem, hw, call, ret, sample,
                 nwritten, stale, ncompl, drained, evicted, caps,
                 rateVars, lrVars, popVars, cbVars,
                 sessions, uaf, complAtBegin, writesAtBegin>>

\* The same pop, one statement of i2s_slc_queue_next_item at a time.
\* uint32_t item = i2s_slc_queue[0]; i2s_slc_queue_len--; i=0
PopBegin ==
  /\ running /\ CpuFree
  /\ pc = "pop"
  /\ popItem' = PopItem(i2s_slc_queue)
  /\ i2s_slc_queue_len' = PopLen(i2s_slc_queue_len)
  /\ popI' = 0
  /\ popSnap' = <<i2s_slc_queue, i2s_slc_queue_len>>
  /\ oob' = (oob \/ PopOob(i2s_slc_queue_len))
  /\ pc' = "shift"
  /\ UNCHANGED <<running, i2s_slc_queue, i2s_curr_slc_buf, i2s_curr_slc_buf_pos,
                 mem, hw, call, ret, sample, nwritten, stale, ncompl, drained,
                 evicted, lastPop, caps, rateVars, lifeVars, lrVars, cbVars>>

\* one turn of for(i=0;i<i2s_slc_queue_len;i++) i2s_slc_queue[i] = i2s_slc_queue[i+1]
PopShift ==
  /\ running /\ CpuFree
  /\ pc = "shift"
  /\ popI < i2s_slc_queue_len
  /\ i2s_slc_queue' = IF popI + 1 \in Slots
                        THEN [i2s_slc_queue EXCEPT ![popI] = i2s_slc_queue[popI + 1]]
                        ELSE i2s_slc_queue
  /\ oob' = (oob \/ popI + 1 \notin Slots)
  /\ popI' = (popI + 1) % UINT8
  /\ UNCHANGED <<running, i2s_slc_queue_len, i2s_curr_slc_buf, i2s_curr_slc_buf_pos,
                 mem, hw, prod, nwritten, stale, ncompl, drained, evicted,
                 lastPop, caps, rateVars, lifeVars, lrVars, popItem, popSnap,
                 cbVars>>

\* the loop ends; return item; i2s_curr_slc_buf = (uint32_t *) the item
PopReturn ==
  /\ running /\ CpuFree
  /\ pc = "shift"
  /\ ~(popI < i2s_slc_queue_len)
  /\ i2s_curr_slc_buf' = popItem
  /\ lastPop' = LastCompletion(popItem)
  /\ dangling' = FALSE
  /\ pc' = "unmask"
  /\ UNCHANGED <<running, i2s_slc_queue, i2s_slc_queue_len, i2s_curr_slc_buf_pos,
                 mem, hw, call, ret, sample, nwritten, stale, ncompl, drained,
                 evicted, oob, caps, rateVars, lrVars, popVars, cbVars,
                 sessions, uaf, complAtBegin, writesAtBegin>>

\* ETS_SLC_INTR_ENABLE()
UnmaskIntr ==
  /\ running
  /\ pc = "unmask"
  /\ intrEnabled' = TRUE
  /\ pc' = "store"
  /\ UNCHANGED <<prog, rxDesc, rxPos, SLCRXEDA, SLCIS, call, ret, sample, hist, caps, ext>>

\* i2s_curr_slc_buf_pos=0; then the store and the return
StoreFirst ==
  /\ running /\ CpuFree
  /\ pc = "store"
  /\ Store(i2s_curr_slc_buf, 0, sample)
  /\ UNCHANGED <<running, i2s_slc_queue, i2s_slc_queue_len, i2s_curr_slc_buf,
                 hw, call, sample, stale, ncompl, drained, evicted, lastPop, oob, caps,
                 extStore>>

Next ==
  \/ i2s_begin
  \/ DmaRead
  \/ DmaEof
  \/ i2s_slc_isr
  \/ i2s_write_sample
  \/ SpinLoop
  \/ i2s_write_sample_nb
  \/ MaskIntr
  \/ PopNext
  \/ UnmaskIntr
  \/ StoreFirst

Spec == Init /\ [][Next]_vars

\* the producer uses the blocking writer only
NextBlocking ==
  \/ i2s_begin
  \/ DmaRead
  \/ DmaEof
  \/ i2s_slc_isr
  \/ i2s_write_sample
  \/ SpinLoop
  \/ MaskIntr
  \/ PopNext
  \/ UnmaskIntr
  \/ StoreFirst

SpecBlocking == Init /\ [][NextBlocking]_vars

\* an underrun: few writes, two laps of the ring
SpecUnderrun == InitUnderrun /\ [][Next]_vars

\* A short session of the blocking writer in which the engine keeps running,
\* interrupts are delivered and the producer is scheduled.
Engine == DmaRead \/ DmaEof
Producer == i2s_write_sample \/ SpinLoop \/ MaskIntr \/ PopNext \/ UnmaskIntr \/ StoreFirst

SpecFair ==
  /\ InitFair
  /\ [][NextBlocking]_vars
  /\ WF_vars(i2s_begin)
  /\ WF_vars(Engine)
  /\ WF_vars(i2s_slc_isr)
  /\ WF_vars(Producer)

\* a session in which the pop of the producer takes one step per statement
NextSteps ==
  \/ i2s_begin
  \/ DmaRead
  \/ DmaEof
  \/ i2s_slc_isr
  \/ i2s_write_sample
  \/ SpinLoop
  \/ i2s_write_sample_nb
  \/ MaskIntr
  \/ PopBegin
  \/ PopShift
  \/ PopReturn
  \/ UnmaskIntr
  \/ StoreFirst

SpecSteps == InitSteps /\ [][NextSteps]_vars

\* a session in which a callback is registered and removed
NextCallback ==
  \/ i2s_begin
  \/ DmaRead
  \/ DmaEof
  \/ i2s_slc_isr
  \/ i2s_set_callback
  \/ i2s_write_sample
  \/ SpinLoop
  \/ i2s_write_sample_nb
  \/ MaskIntr
  \/ PopNext
  \/ UnmaskIntr
  \/ StoreFirst

SpecCallback == InitCallback /\ [][NextCallback]_vars

\* sessions begun and ended between the calls of the writers
NextLife ==
  \/ i2s_begin
  \/ i2s_end
  \/ DmaRead
  \/ DmaEof
  \/ i2s_slc_isr
  \/ i2s_write_sample
  \/ SpinLoop
  \/ i2s_write_sample_nb
  \/ MaskIntr
  \/ PopNext
  \/ UnmaskIntr
  \/ StoreFirst

SpecLife == InitLife /\ [][NextLife]_vars

\* a session of the stereo writer
NextStereo ==
  \/ i2s_begin
  \/ DmaRead
  \/ DmaEof
  \/ i2s_slc_isr
  \/ i2s_write_lr
  \/ SpinLoop
  \/ MaskIntr
  \/ PopNext
  \/ UnmaskIntr
  \/ StoreFirst

SpecStereo == InitStereo /\ [][NextStereo]_vars

\* the clock: sessions begun and ended, and rates requested
NextRate ==
  \/ i2s_begin
  \/ i2s_end
  \/ i2s_set_rate

SpecRate == Init /\ [][NextRate]_vars

----------------------------------------------------------------------------
\* Properties

QueueIdx == 0 .. (i2s_slc_queue_len - 1)
Range(f) == {f[i] : i \in DOMAIN f}
InMem(s) == \E b \in Bufs : \E w \in Words : mem[b][w] = s

\* C1: the queue length stays within 0 .. SLC_BUF_CNT-1: no pop of an empty
\* queue wraps the 8-bit length and no access falls outside i2s_slc_queue.
C1_QueueLenInRange ==
  /\ i2s_slc_queue_len \in 0 .. (SLC_BUF_CNT - 1)
  /\ ~oob

C1_Witness ==
  /\ evicted
  /\ i2s_slc_queue_len = SLC_BUF_CNT - 1
  /\ lastPop >= 0

\* C2: whenever a writer stores a sample, the buffer it stores into is not
\* the buffer the engine is draining.
C2_NoStoreIntoDrainedBuffer ==
  [][nwritten' # nwritten => i2s_curr_slc_buf' # rxDesc]_vars

\* C3: at every pop by a writer, every word of the buffer the queue returns
\* is zero.
C3_PoppedBufferIsZero ==
  pc = "unmask" => mem[i2s_curr_slc_buf] = ZeroBuf

\* C4: every word of the buffer the engine is draining is zero or a sample
\* stored after that buffer's previous completion, and no sample is read by
\* the engine twice.
C4_NoStaleReplay ==
  /\ \A w \in Words : mem[rxDesc][w] = 0 \/ <<rxDesc, mem[rxDesc][w]>> \notin stale
  /\ \A i, j \in DOMAIN drained : i # j => drained[i] # drained[j]

\* the engine begins to drain again a buffer that held samples at its
\* last completion, two laps after the producer stopped
C4_Witness ==
  /\ rxPos = 0
  /\ ncompl >= 2 * SLC_BUF_CNT
  /\ nwritten = capWrites
  /\ \E e \in stale : e[1] = rxDesc

\* C5: with the blocking writer and no eviction, the samples read by the
\* engine are in write order and no stored sample disappears unread.
C5_SamplesInOrderNoneLost ==
  ~evicted =>
    /\ \A i, j \in DOMAIN drained : i < j => drained[i] < drained[j]
    /\ \A s \in 1 .. nwritten : s \in Range(drained) \/ InMem(s)

\* C6: the buffer the engine is draining is not in the queue.
C6_InFlightNotQueued ==
  running => \A i \in QueueIdx : i2s_slc_queue[i] # rxDesc

\* C7: a blocking call leaves its wait only when the queue holds a buffer
\* and then pops it; it returns only with true and with the sample stored
\* (at offset 0 after a pop); and, while the engine still completes
\* buffers, a waiting call returns.
C7_BlockingWriteSucceeds ==
  /\ [][(pc = "spin" /\ pc' # "spin") => (i2s_slc_queue_len > 0 /\ pc' = "mask")]_vars
  /\ [][(call = "blocking" /\ pc = "pop" /\ pc' # "pop") =>
          (i2s_slc_queue_len > 0 /\ i2s_curr_slc_buf' = i2s_slc_queue[0])]_vars
  /\ [][(call' = "blocking" /\ pc' = "idle" /\ (pc = "store" \/ nwritten' # nwritten)) =>
          /\ ret'
          /\ nwritten' = nwritten + 1
          /\ pc = "store" => i2s_curr_slc_buf_pos' = 1
          /\ mem'[i2s_curr_slc_buf'][i2s_curr_slc_buf_pos' - 1] = nwritten']_vars
  /\ (pc = "spin" /\ ncompl < capCompletions) ~> (pc = "idle")

C7_Witness ==
  /\ pc = "spin"
  /\ i2s_curr_slc_buf_pos = SLC_BUF_LEN
  /\ i2s_slc_queue_len > 0

\* C8: i2s_write_sample_nb returns false and changes nothing when the cursor
\* is unset or exhausted and the queue is empty; otherwise it pops the
\* oldest entry first if the cursor is unset or exhausted, stores the sample
\* at the cursor and advances the offset by one, and returns true.
C8_NbEntry ==
  i2s_write_sample_nb =>
    IF (i2s_curr_slc_buf = NULL \/ i2s_curr_slc_buf_pos = SLC_BUF_LEN)
      THEN IF i2s_slc_queue_len = 0
             THEN ~ret' /\ pc' = "idle" /\ UNCHANGED <<prog, hw, hist, caps, ext>>
             ELSE pc' # "idle" /\ UNCHANGED <<prog, hw, hist, caps, ret>>
      ELSE /\ ret' /\ pc' = "idle"
           /\ mem' = [mem EXCEPT ![i2s_curr_slc_buf][i2s_curr_slc_buf_pos] = nwritten + 1]
           /\ i2s_curr_slc_buf_pos' = i2s_curr_slc_buf_pos + 1
           /\ UNCHANGED <<i2s_slc_queue, i2s_slc_queue_len, i2s_curr_slc_buf>>

C8_NbPop ==
  (call = "nb" /\ pc = "pop" /\ pc' # "pop") =>
    /\ i2s_curr_slc_buf' = i2s_slc_queue[0]
    /\ i2s_slc_queue_len' = i2s_slc_queue_len - 1
    /\ \A i \in 0 .. (i2s_slc_queue_len - 2) : i2s_slc_queue'[i] = i2s_slc_queue[i + 1]
    /\ UNCHANGED mem

C8_NbReturn ==
  (call = "nb" /\ pc = "store" /\ pc' = "idle") =>
    /\ ret'
    /\ mem' = [mem EXCEPT ![i2s_curr_slc_buf][0] = nwritten + 1]
    /\ i2s_curr_slc_buf_pos' = 1
    /\ UNCHANGED <<i2s_slc_queue, i2s_slc_queue_len, i2s_curr_slc_buf>>

C8_NonBlockingWrite == [][C8_NbEntry /\ C8_NbPop /\ C8_NbReturn]_vars

C8_Witness ==
  /\ call = "nb" /\ pc = "idle" /\ ~ret
  /\ i2s_curr_slc_buf_pos = SLC_BUF_LEN
  /\ i2s_slc_queue_len = 0

\* C9: a handler run with the queue at capacity drops the oldest entry and
\* appends the completed buffer, the length staying SLC_BUF_CNT-1; below
\* capacity it appends and removes nothing.
C9_DropOldest ==
  [][(SLCIS /\ ~SLCIS') =>
       IF i2s_slc_queue_len = SLC_BUF_CNT - 1
         THEN /\ i2s_slc_queue_len' = SLC_BUF_CNT - 1
              /\ \A i \in 0 .. (SLC_BUF_CNT - 3) : i2s_slc_queue'[i] = i2s_slc_queue[i + 1]
              /\ i2s_slc_queue'[SLC_BUF_CNT - 2] = SLCRXEDA
         ELSE /\ i2s_slc_queue_len' = i2s_slc_queue_len + 1
              /\ \A i \in QueueIdx : i2s_slc_queue'[i] = i2s_slc_queue[i]
              /\ i2s_slc_queue'[i2s_slc_queue_len] = SLCRXEDA]_vars

C9_Witness ==
  /\ evicted
  /\ ~SLCIS
  /\ i2s_slc_queue_len = SLC_BUF_CNT - 1
  /\ i2s_slc_queue[SLC_BUF_CNT - 2] = SLCRXEDA

\* C10: the queue holds buffers in completion order, the producer gets the
\* earliest completed buffer of the queue, the buffers it gets are in
\* completion order, and an eviction removes the earliest completed entry
\* only.
C10_Fifo ==
  /\ [](\A i, j \in QueueIdx :
          i < j => LastCompletion(i2s_slc_queue[i]) < LastCompletion(i2s_slc_queue[j]))
  /\ [][(pc = "pop" /\ pc' # "pop") =>
          /\ \A i \in QueueIdx :
               LastCompletion(i2s_curr_slc_buf') <= LastCompletion(i2s_slc_queue[i])
          /\ lastPop < LastCompletion(i2s_curr_slc_buf')]_vars
  /\ [][(SLCIS /\ ~SLCIS' /\ i2s_slc_queue_len = SLC_BUF_CNT - 1) =>
          \A i \in 1 .. (SLC_BUF_CNT - 2) :
            \E k \in 0 .. (i2s_slc_queue_len' - 1) : i2s_slc_queue'[k] = i2s_slc_queue[i]]_vars

C10_Witness ==
  /\ evicted
  /\ pc = "unmask"
  /\ i2s_slc_queue_len > 1
  /\ lastPop >= 2

\* C11: i2s_is_full() is true exactly when the cursor is unset or at
\* SLC_BUF_LEN and the queue is empty, and a call of i2s_write_sample_nb
\* returns false at once, storing nothing, exactly from the states in which
\* i2s_is_full() is true; a call that goes on to pop a buffer returns true.
C11_IsFullIffNbFails ==
  /\ [](i2s_is_full <=>
          ((i2s_curr_slc_buf = NULL \/ i2s_curr_slc_buf_pos = SLC_BUF_LEN)
             /\ i2s_slc_queue_len = 0))
  /\ [][i2s_write_sample_nb =>
          (i2s_is_full <=> (pc' = "idle" /\ ~ret' /\ nwritten' = nwritten))]_vars
  /\ [][(call = "nb" /\ pc # "idle" /\ pc' = "idle") => ret']_vars

C11_Witness ==
  /\ ncompl > 0
  /\ call = "nb" /\ pc = "idle" /\ ~ret
  /\ i2s_is_full

\* C12: between two calls of the producer, i2s_available() is not larger
\* than the number of consecutive i2s_write_sample_nb calls that return true
\* with no completion in between.
C12_AvailableIsConservative ==
  (running /\ pc = "idle") =>
    i2s_available <= NbAccepted(i2s_curr_slc_buf, i2s_curr_slc_buf_pos,
                                i2s_slc_queue, i2s_slc_queue_len)

\* C13: right after i2s_begin i2s_available() is SLC_BUF_CNT * SLC_BUF_LEN,
\* and once the producer has filled its first buffer, before the handler
\* has reclaimed any further buffer, it is (SLC_BUF_CNT - 1) * SLC_BUF_LEN.
C13_AvailableAfterOneBuffer ==
  /\ (running /\ ncompl = 0 /\ nwritten = 0) =>
       i2s_available = SLC_BUF_CNT * SLC_BUF_LEN
  /\ (running /\ pc = "idle" /\ nwritten = SLC_BUF_LEN /\ ncompl = 1 /\ ~SLCIS) =>
       i2s_available = (SLC_BUF_CNT - 1) * SLC_BUF_LEN

\* |scaled_base_freq / p - rate| < |scaled_base_freq / q - rate|, exactly:
\* the integer parts of the two fractions, then their remainders
Abs(x) == IF x < 0 THEN 0 - x ELSE x
ErrLess(p, q, rate) ==
  LET a == Abs(scaled_base_freq - rate * p)
      b == Abs(scaled_base_freq - rate * q)
  IN \/ a \div p < b \div q
     \/ a \div p = b \div q /\ (a % p) * q < (b % q) * p

\* d is the first pair of the scan (d1 ascending, then d2 ascending from d1)
\* among the pairs of least error for rate
FirstOfLeastError(d, rate) ==
  /\ d[1] \in 1 .. 63
  /\ d[2] \in d[1] .. 63
  /\ \A i \in 1 .. 63 : \A j \in i .. 63 :
       /\ ~ErrLess(i * j, d[1] * d[2], rate)
       /\ (i < d[1] \/ (i = d[1] /\ j < d[2])) => ErrLess(d[1] * d[2], i * j, rate)

\* C14: after i2s_set_rate(R) with R in 8000..48000 the divider fields hold
\* the pair d1 <= d2 in 1..63 of least |F/(d1*d2) - R|, F = I2SBASEFREQ/32,
\* and among the pairs of least error the first of the scan.
C14_SetRateMinimizes ==
  (lastReq # NULL /\ lastReq >= 8000 /\ lastReq <= 48000) =>
    FirstOfLeastError(I2SC, lastReq)

\* C15: a call of i2s_set_rate with the rate of the previous call does not
\* write the divider fields, a call with another rate writes them, and
\* the call made by every i2s_begin writes them.
C15_RateIdempotence ==
  /\ [][(rateCalls' # rateCalls /\ running' = running /\ lastReq # NULL) =>
          IF lastReq' = lastReq
            THEN nprog' = nprog /\ I2SC' = I2SC
            ELSE nprog' = nprog + 1]_vars
  /\ [][(~running /\ running') =>
          (rateCalls' = rateCalls + 1 /\ lastReq' = 44100 /\ nprog' = nprog + 1)]_vars

\* a second session has begun after a rate was requested twice in a row
C15_Witness ==
  /\ running
  /\ sessions >= 2
  /\ nprog >= 2
  /\ rateCalls > nprog

\* the halves of a 32-bit word and the 16-bit pattern of a signed value
Hi16(w) == ((w - (w % 65536)) \div 65536) % 65536
Lo16(w) == w % 65536
Pattern16(x) == x % 65536

\* C16: the word i2s_write_lr(left, right) passes to the blocking writer,
\* and the writer stores, has the 16-bit pattern of right in bits 16..31 and
\* that of left in bits 0..15, for negative values too; left = 0x1234,
\* right = 0x5678 give 0x56781234.
C16_StereoPacking ==
  /\ [](call = "lr" =>
          /\ Hi16(sample) = Pattern16(lrArgs[2])
          /\ Lo16(sample) = Pattern16(lrArgs[1])
          /\ (lrArgs = <<4660, 22136>> => sample = 1450709556))
  /\ [][(call' = "lr" /\ nwritten' # nwritten) =>
          mem'[i2s_curr_slc_buf'][i2s_curr_slc_buf_pos' - 1] = sample']_vars

\* a word with a negative left and a non-negative right has been stored
C16_Witness ==
  /\ call = "lr" /\ pc = "idle"
  /\ nwritten > 0
  /\ lrArgs[1] < 0 /\ lrArgs[2] > 0

\* C17: the handler does not run between the first and the last step of a
\* pop made by a writer; the queue is not empty from the writer's test of
\* the length to the pop; and outside those steps the first
\* i2s_slc_queue_len slots hold pairwise different buffers, the pop having
\* removed exactly the first entry of the queue it began with.
C17_PopNotInterleaved ==
  /\ [][(SLCIS /\ ~SLCIS' /\ running') => pc # "shift"]_vars
  /\ [](pc \in {"mask", "pop"} => i2s_slc_queue_len > 0)
  /\ [](pc # "shift" =>
          /\ \A i \in QueueIdx : i2s_slc_queue[i] \in Bufs
          /\ \A i, j \in QueueIdx : i # j => i2s_slc_queue[i] # i2s_slc_queue[j])
  /\ [](pc = "unmask" =>
          /\ i2s_curr_slc_buf = popSnap[1][0]
          /\ i2s_slc_queue_len = popSnap[2] - 1
          /\ \A i \in QueueIdx : i2s_slc_queue[i] = popSnap[1][i + 1])

\* a completion is pending while the producer is in the middle of a pop
C17_Witness ==
  /\ pc = "shift"
  /\ popI > 0
  /\ SLCIS

\* C18: a handler run with a callback registered invokes it once, when the
\* completed buffer is zeroed and is the newest entry of the queue (whose
\* length is then at least 1 and is what the run leaves) and the SLC
\* interrupt is still masked; a run with no callback invokes nothing and
\* changes the queue in the same way; nothing else invokes the callback,
\* and every completion gets one handler run.
C18_HandlerRun == SLCIS /\ ~SLCIS' /\ running'
C18_CallbackOrdering ==
  /\ [][C18_HandlerRun =>
          /\ i2s_slc_queue_len' >= 1
          /\ i2s_slc_queue'[i2s_slc_queue_len' - 1] = SLCRXEDA
          /\ mem'[SLCRXEDA] = ZeroBuf
          /\ IF i2s_callback # NULL
               THEN /\ ncb' = ncb + 1 /\ nskip' = nskip
                    /\ cbSeen'.len >= 1
                    /\ cbSeen'.queue[cbSeen'.len - 1] = SLCRXEDA
                    /\ cbSeen'.words = ZeroBuf
                    /\ cbSeen'.queue = i2s_slc_queue'
                    /\ cbSeen'.len = i2s_slc_queue_len'
                    /\ ~cbSeen'.enabled
               ELSE ncb' = ncb /\ nskip' = nskip + 1 /\ cbSeen' = cbSeen]_vars
  /\ [][~C18_HandlerRun => (ncb' = ncb /\ nskip' = nskip)]_vars
  /\ [](ncb + nskip = ncompl - (IF SLCIS THEN 1 ELSE 0))

\* the callback has been invoked by a run that dropped the oldest entry,
\* and a run without a callback has happened
C18_Witness ==
  /\ evicted
  /\ ncb > 0 /\ nskip > 0
  /\ cbSeen.len = SLC_BUF_CNT - 1
  /\ cbSeen.queue[SLC_BUF_CNT - 2] = SLCRXEDA

\* C19: the first i2s_slc_queue_len slots of the queue hold pairwise
\* different buffers of the pool, at most SLC_BUF_CNT-1 of them: each entry
\* is followed by its successor in the ring, and once the handler has run
\* the last entry is the buffer completed last.
C19_QueueEntriesDistinct ==
  /\ i2s_slc_queue_len <= SLC_BUF_CNT - 1
  /\ \A i \in QueueIdx : i2s_slc_queue[i] \in Bufs
  /\ \A i, j \in QueueIdx : i # j => i2s_slc_queue[i] # i2s_slc_queue[j]
  /\ \A i \in QueueIdx :
       i + 1 < i2s_slc_queue_len => i2s_slc_queue[i + 1] = next_link_ptr(i2s_slc_queue[i])
  /\ (i2s_slc_queue_len > 0 /\ ~SLCIS) =>
       i2s_slc_queue[i2s_slc_queue_len - 1] = SLCRXEDA

\* the queue is at capacity again after an eviction and a pop, and the next
\* completion waits for the handler
C19_Witness ==
  /\ evicted
  /\ lastPop >= 0
  /\ SLCIS
  /\ i2s_slc_queue_len = SLC_BUF_CNT - 1

\* C20: no sample is stored through a cursor left by an earlier session;
\* the first store of a session that follows another one comes after a pop
\* in that session and goes to offset 0 of the popped buffer; and from
\* i2s_begin to the first completion i2s_is_full() is true.
C20_FreshCursor ==
  /\ [](~uaf)
  /\ [][(sessions >= 2 /\ nwritten = writesAtBegin /\ nwritten' # nwritten) =>
          (pc = "store" /\ i2s_curr_slc_buf_pos' = 1
             /\ mem'[i2s_curr_slc_buf'][0] = sample')]_vars
  /\ []((running /\ pc = "idle" /\ ncompl = complAtBegin) => i2s_is_full)

====
